---- MODULE Spec2Model ----
(***************************************************************************)
(* Model of salt/modules/sysmod.py: the read-only introspection functions  *)
(* (doc, state_doc, list_functions, list_modules, list_state_functions,    *)
(* list_state_modules, argspec, reload_modules) over the execution         *)
(* registry __salt__ and the state registry salt.state.State(opts).states. *)
(*                                                                         *)
(* Python strings are sequences of one-character strings, so that          *)
(* startswith, endswith, split, + and sorted() are computed character by   *)
(* character.  A positional argument is a tagged Python value (str, int    *)
(* or None), because the functions take whatever the command line parsed.  *)
(***************************************************************************)
EXTENDS Naturals, Sequences, FiniteSets, TLC

VARIABLES salt, states, provider, pc, op, args, kwargs, result, history

vars == <<salt, states, provider, pc, op, args, kwargs, result, history>>

(* ---------------------------- bounds ----------------------------------- *)

\* largest number of entries held by the two registries together
MaxReg == 2
\* largest number of positional arguments of one call
MaxArgs == 2
\* number of results of argument-less list_functions calls that are recorded
MaxRepeat == 2

(* ------------------------ Python strings ------------------------------- *)

DOT == <<".">>

EMPTY == <<>>

\* ord(c) of the characters that occur in the names below
ord(c) ==
  CASE c = "." -> 46
    [] c = "a" -> 97
    [] c = "c" -> 99
    [] c = "d" -> 100
    [] c = "e" -> 101
    [] c = "g" -> 103
    [] c = "i" -> 105
    [] c = "k" -> 107
    [] c = "l" -> 108
    [] c = "n" -> 110
    [] c = "o" -> 111
    [] c = "p" -> 112
    [] c = "r" -> 114
    [] c = "s" -> 115
    [] c = "t" -> 116
    [] c = "y" -> 121

\* str.__lt__: comparison by code point, a proper prefix sorts first
RECURSIVE str_lt(_, _)
str_lt(x, y) ==
  IF y = EMPTY THEN FALSE
  ELSE IF x = EMPTY THEN TRUE
  ELSE IF Head(x) = Head(y) THEN str_lt(Tail(x), Tail(y))
  ELSE ord(Head(x)) < ord(Head(y))

\* str.startswith(prefix) for a str prefix
RECURSIVE str_startswith(_, _)
str_startswith(s, prefix) ==
  IF prefix = EMPTY THEN TRUE
  ELSE IF s = EMPTY THEN FALSE
  ELSE Head(s) = Head(prefix) /\ str_startswith(Tail(s), Tail(prefix))

\* str.endswith('.')
endswith_dot(s) == s # EMPTY /\ s[Len(s)] = "."

\* str.split('.'): the segments between the separators, empty ones included
RECURSIVE split_from(_, _, _)
split_from(s, cur, acc) ==
  IF s = EMPTY THEN Append(acc, cur)
  ELSE IF Head(s) = "." THEN split_from(Tail(s), EMPTY, Append(acc, cur))
  ELSE split_from(Tail(s), Append(cur, Head(s)), acc)

split(s) == split_from(s, EMPTY, <<>>)

\* sorted() with the comparison turned round: a descending list
RECURSIVE sorted_reverse(_)
sorted_reverse(S) ==
  IF S = {} THEN <<>>
  ELSE LET most == CHOOSE x \in S : \A y \in S \ {x} : str_lt(y, x)
       IN  <<most>> \o sorted_reverse(S \ {most})

\* sorted(iterable of str): ascending list, one element per member
RECURSIVE sorted(_)
sorted(S) ==
  IF S = {} THEN <<>>
  ELSE LET least == CHOOSE x \in S : \A y \in S \ {x} : str_lt(x, y)
       IN  <<least>> \o sorted(S \ {least})

(* ------------------------ Python values -------------------------------- *)

PyStr(s) == [type |-> "str", s |-> s, n |-> 0]

PyInt(n) == [type |-> "int", s |-> EMPTY, n |-> n]

PyNone == [type |-> "NoneType", s |-> EMPTY, n |-> 0]

\* bool(v), as "if module:" evaluates it
truthy(v) ==
  CASE v.type = "str" -> v.s # EMPTY
    [] v.type = "int" -> v.n # 0
    [] OTHER -> FALSE

(* ------------------------ outcomes of a call --------------------------- *)

Returned(v) == [status |-> "returned", exc |-> "", value |-> v]

Raised(e) == [status |-> "raised", exc |-> e, value |-> <<>>]

NoResult == [status |-> "none", exc |-> "", value |-> <<>>]

(* ------------------------ the registries ------------------------------- *)

\* the entry a loader registers under a name: the function's docstring
\* (reStructuredText, one per function) and its signature
Descriptor(name) ==
  [doc |-> [markup |-> TRUE, text |-> name], argspec |-> [args |-> <<>>, owner |-> name]]

sys == <<"s", "y", "s">>

pkg == <<"p", "k", "g">>

sys_doc == sys \o DOT \o <<"d", "o", "c">>

sys_reload == sys \o DOT \o <<"r", "e", "l", "o", "a", "d">>

sysctl_get == sys \o <<"c", "t", "l">> \o DOT \o <<"g", "e", "t">>

pkg_install == pkg \o DOT \o <<"i", "n", "s", "t", "a", "l", "l">>

\* the names a registry may hold: a bare name without separator, two
\* functions of one module, a module whose name extends another's, and a
\* function of an unrelated module
Names == {sys, sys_doc, sys_reload, sysctl_get, pkg_install}

Registries ==
  {[name \in S |-> Descriptor(name)] : S \in {T \in SUBSET Names : Cardinality(T) <= MaxReg}}

\* the positional arguments a caller passes: the empty string, a module
\* with and without trailing separator, a full function name, a module that
\* may be absent, and values that are not strings
StrTerms == {PyStr(EMPTY), PyStr(sys), PyStr(sys \o DOT), PyStr(sys_doc), PyStr(pkg)}

NonStrTerms == {PyInt(123), PyInt(0), PyNone}

Terms == StrTerms \cup NonStrTerms

ArgLists(T) == UNION {[1..k -> T] : k \in 0..MaxArgs}

\* keyword arguments tacked on to a call
KwargSets == {{}, {"garbage_keyword_arg"}}

(* ------------------------ collaborators -------------------------------- *)

\* salt.utils.doc.strip_rst: every docstring of the mapping loses its markup,
\* the keys stay
_strip_rst(docs) == [fun \in DOMAIN docs |-> [docs[fun] EXCEPT !.markup = FALSE]]

\* salt.state.State(__opts__): the state registry, or the failure of its
\* construction when the provider is not available
State(avail, reg) == IF avail = "ready" THEN Returned(reg) ELSE Raised("StateProviderError")

\* salt.utils.argspec_report(functions, module): the signatures of the
\* functions the module filter selects
argspec_report(functions, module) ==
  LET target == IF module = EMPTY THEN EMPTY
                ELSE IF endswith_dot(module) THEN module ELSE module \o DOT
  IN  [fun \in {f \in DOMAIN functions : f = module \/ str_startswith(f, target)}
         |-> functions[fun].argspec]

(* ------------------------ doc / state_doc ------------------------------ *)

\* the prefix without the separator appended: a raw string prefix
target_mod_raw(module) == IF truthy(module) THEN module.s ELSE EMPTY

\* the prefix doc() derives from one argument
target_mod(module) ==
  IF truthy(module)
  THEN IF ~endswith_dot(module.s) THEN module.s \o DOT ELSE module.s
  ELSE EMPTY

\* the match on the raw argument, which lets "sys" select "sysctl.get"
doc_match_raw(fun, module) ==
  PyStr(fun) = module \/ str_startswith(fun, IF truthy(module) THEN module.s ELSE EMPTY)

\* "fun == module or fun.startswith(target_mod)"
doc_match(fun, module) == PyStr(fun) = module \/ str_startswith(fun, target_mod(module))

\* the exception one iteration of doc()'s loop over args raises, "" if none:
\* a truthy argument that is no str has no endswith
doc_raises(module) ==
  IF truthy(module) /\ module.type # "str" THEN "AttributeError" ELSE ""

\* docs rebuilt for each argument, so that only the last one's entries stay
doc_collect_last(reg, module, docs) ==
  [fun \in {f \in DOMAIN reg : doc_match(f, module)} |-> reg[fun].doc]

\* docs after the iteration for one argument
doc_collect(reg, module, docs) ==
  LET hit == {fun \in DOMAIN reg : doc_match(fun, module)}
  IN  [fun \in DOMAIN docs \cup hit |-> IF fun \in hit THEN reg[fun].doc ELSE docs[fun]]

RECURSIVE doc_loop(_, _, _)
doc_loop(reg, rest, docs) ==
  IF rest = <<>> THEN Returned(_strip_rst(docs))
  ELSE IF doc_raises(Head(rest)) # "" THEN Raised(doc_raises(Head(rest)))
  ELSE doc_loop(reg, Tail(rest), doc_collect(reg, Head(rest), docs))

doc(reg, a) ==
  IF a = <<>>
  THEN Returned(_strip_rst([fun \in DOMAIN reg |-> reg[fun].doc]))
  ELSE doc_loop(reg, a, [fun \in {} |-> 0])

\* state_doc that goes on with no entries when the provider fails
state_doc_unguarded(avail, reg, a) == doc(reg, a)

state_doc(avail, reg, a) ==
  LET st_ == State(avail, reg)
  IN  IF st_.status = "raised" THEN st_ ELSE doc(st_.value, a)

(* ------------------------ list_functions ------------------------------- *)

\* the value of "module" after the "if module:" statement
list_prefix(module) ==
  IF truthy(module)
  THEN IF ~endswith_dot(module.s) THEN PyStr(module.s \o DOT) ELSE module
  ELSE module

\* the exception one iteration of the loop over args raises, "" if none:
\* endswith on a truthy non-str, startswith with a non-str argument
list_raises(reg, module) ==
  IF truthy(module) /\ module.type # "str" THEN "AttributeError"
  ELSE IF list_prefix(module).type # "str" /\ DOMAIN reg # {} THEN "TypeError"
  ELSE ""

\* "func.startswith(module)"
list_match(func, module) == str_startswith(func, list_prefix(module).s)

RECURSIVE list_loop(_, _, _)
list_loop(reg, rest, names) ==
  IF rest = <<>> THEN Returned(sorted(names))
  ELSE IF list_raises(reg, Head(rest)) # "" THEN Raised(list_raises(reg, Head(rest)))
  ELSE list_loop(reg, Tail(rest),
                 names \cup {func \in DOMAIN reg : list_match(func, Head(rest))})

\* list_functions without **kwargs: a keyword argument is a TypeError
list_functions_strict(reg, a, kw) ==
  IF kw # {} THEN Raised("TypeError")
  ELSE IF a = <<>> THEN Returned(sorted(DOMAIN reg)) ELSE list_loop(reg, a, {})

list_functions(reg, a, kw) ==
  IF a = <<>> THEN Returned(sorted(DOMAIN reg)) ELSE list_loop(reg, a, {})

list_state_functions(avail, reg, a, kw) ==
  LET st_ == State(avail, reg)
  IN  IF st_.status = "raised" THEN st_ ELSE list_functions(st_.value, a, kw)

(* ------------------------ list_modules --------------------------------- *)

\* the loop without the "len(comps) < 2" test
has_module_always(func) == TRUE

\* the names that get past "if len(comps) < 2: continue"
has_module(func) == ~(Len(split(func)) < 2)

list_modules(reg) ==
  Returned(sorted({split(func)[1] : func \in {f \in DOMAIN reg : has_module(f)}}))

list_state_modules(avail, reg) ==
  LET st_ == State(avail, reg)
  IN  IF st_.status = "raised" THEN st_ ELSE list_modules(st_.value)

(* ------------------------ reload_modules, argspec ---------------------- *)

\* a reload that reports failure
reload_modules_failed == Returned(FALSE)

reload_modules == Returned(TRUE)

argspec(reg, module) == Returned(argspec_report(reg, module))

(* ------------------------ the state machine ---------------------------- *)

Init ==
  /\ salt \in Registries
  /\ states \in Registries
  /\ Cardinality(DOMAIN salt) + Cardinality(DOMAIN states) <= MaxReg
  /\ provider \in {"ready", "unavailable"}
  /\ provider = "unavailable" => DOMAIN states = {}
  /\ pc = "idle"
  /\ op = "none"
  /\ args = <<>>
  /\ kwargs = {}
  /\ result = NoResult
  /\ history = <<>>

\* a call: the handler runs to completion and leaves its outcome
Call(name, a, kw, r) ==
  /\ pc = "idle"
  /\ pc' = "done"
  /\ op' = name
  /\ args' = a
  /\ kwargs' = kw
  /\ result' = r
  /\ UNCHANGED <<salt, states, provider>>

\* the argument lists of at most one term
ShortLists(T) == {<<>>} \cup {<<t>> : t \in T}

CallDoc(A) ==
  \E a \in A :
    Call("doc", a, {}, doc(salt, a)) /\ UNCHANGED history

CallStateDoc(A) ==
  \E a \in A :
    Call("state_doc", a, {}, state_doc(provider, states, a)) /\ UNCHANGED history

CallListFunctions(A) ==
  \E a \in A, kw \in KwargSets :
    Call("list_functions", a, kw, list_functions(salt, a, kw)) /\ UNCHANGED history

CallListStateFunctions(A) ==
  \E a \in A, kw \in KwargSets :
    /\ Call("list_state_functions", a, kw, list_state_functions(provider, states, a, kw))
    /\ UNCHANGED history

CallListModules ==
  Call("list_modules", <<>>, {}, list_modules(salt)) /\ UNCHANGED history

CallListStateModules ==
  /\ Call("list_state_modules", <<>>, {}, list_state_modules(provider, states))
  /\ UNCHANGED history

CallReloadModules ==
  Call("reload_modules", <<>>, {}, reload_modules) /\ UNCHANGED history

CallArgspec ==
  \E m \in StrTerms :
    Call("argspec", <<m>>, {}, argspec(salt, m.s)) /\ UNCHANGED history

\* the caller takes the outcome; the layer keeps nothing between calls
Return ==
  /\ pc = "done"
  /\ pc' = "idle"
  /\ op' = "none"
  /\ args' = <<>>
  /\ kwargs' = {}
  /\ result' = NoResult
  /\ UNCHANGED <<salt, states, provider, history>>

\* every operation, with every argument list
Next ==
  \/ CallDoc(ArgLists(StrTerms))
  \/ CallStateDoc(ArgLists(StrTerms))
  \/ CallListFunctions(ArgLists(Terms))
  \/ CallListStateFunctions(ArgLists(Terms))
  \/ CallListModules
  \/ CallListStateModules
  \/ CallReloadModules
  \/ CallArgspec
  \/ Return

Spec == Init /\ [][Next]_vars

\* the two documentation lookups
NextDoc ==
  \/ CallDoc(ArgLists(StrTerms))
  \/ CallStateDoc(ArgLists(StrTerms))
  \/ Return

SpecDoc == Init /\ [][NextDoc]_vars

\* the two name listings, called with strings
NextList ==
  \/ CallListFunctions(ArgLists(StrTerms))
  \/ CallListStateFunctions(ArgLists(StrTerms))
  \/ Return

SpecList == Init /\ [][NextList]_vars

\* every operation, called with at most one positional argument
NextShort ==
  \/ CallDoc(ShortLists(StrTerms))
  \/ CallStateDoc(ShortLists(StrTerms))
  \/ CallListFunctions(ShortLists(Terms))
  \/ CallListStateFunctions(ShortLists(Terms))
  \/ CallListModules
  \/ CallListStateModules
  \/ CallReloadModules
  \/ CallArgspec
  \/ Return

SpecShort == Init /\ [][NextShort]_vars

\* repeated argument-less list_functions calls, each outcome recorded
CallListAll ==
  /\ Len(history) < MaxRepeat
  /\ \E kw \in KwargSets :
       /\ Call("list_functions", <<>>, kw, list_functions(salt, <<>>, kw))
       /\ history' = Append(history, list_functions(salt, <<>>, kw))

NextRepeat == CallListAll \/ Return

SpecRepeat == Init /\ [][NextRepeat]_vars

(* ------------------------ properties ----------------------------------- *)

\* the registry the finished call read
Reg == IF op \in {"state_doc", "list_state_functions", "list_state_modules"} THEN states ELSE salt

\* a call has finished and, if it is a state operation, its provider was there
Served == pc = "done" /\ (op \in {"state_doc", "list_state_functions", "list_state_modules"} => provider = "ready")

IsPrefix(p, s) == Len(p) <= Len(s) /\ SubSeq(s, 1, Len(p)) = p

\* the names of reg in the namespace of q: q itself, or q + '.' + anything
Selected(reg, q) == {n \in DOMAIN reg : n = q \/ IsPrefix(q \o DOT, n)}

Range(seq) == {seq[i] : i \in 1..Len(seq)}

\* lexicographically sorted without duplicates
StrictlyAscending(seq) == \A i \in 1..(Len(seq) - 1) : str_lt(seq[i], seq[i + 1])

\* a non-empty str that does not end with the separator
PlainTerm(t) == t.type = "str" /\ t.s # EMPTY /\ ~endswith_dot(t.s)

HasDot(n) == \E i \in 1..Len(n) : n[i] = "."

\* the text before the first separator of a name that has one
BeforeFirstDot(n) ==
  LET i == CHOOSE k \in 1..Len(n) : n[k] = "." /\ \A j \in 1..(k - 1) : n[j] # "."
  IN  SubSeq(n, 1, i - 1)

\* C1: doc(q) and state_doc(q), for one non-empty term q that does not end
\* with '.', return a mapping whose keys are exactly the names n of the
\* registry with n = q or n starting with q + '.'; for q = "sys" that
\* includes "sys.reload" and never "sysctl.get".
C1_DocSelectsNamespace ==
  (Served /\ op \in {"doc", "state_doc"} /\ Len(args) = 1 /\ PlainTerm(args[1]))
    => /\ result.status = "returned"
       /\ DOMAIN result.value = Selected(Reg, args[1].s)
       /\ args[1].s = sys =>
            /\ sys_reload \in DOMAIN Reg => sys_reload \in DOMAIN result.value
            /\ sysctl_get \notin DOMAIN result.value

C1_Witness ==
  /\ pc = "done" /\ op = "doc" /\ args = <<PyStr(sys)>>
  /\ DOMAIN salt = {sys_reload, sysctl_get}
  /\ result.status = "returned" /\ DOMAIN result.value = {sys_reload}

\* C2: list_functions(t1..tk) and list_state_functions(t1..tk), for one or
\* more non-empty terms, return the sorted duplicate-free sequence of exactly
\* the names n with n = ti or n starting with ti + '.' for some i; a name
\* equal to a term is in the result.  (Stated for terms that do not end with
\* the separator, the case the claim's examples are about.)
C2_ListSelectsNamespaces ==
  (Served /\ op \in {"list_functions", "list_state_functions"} /\ args # <<>>
     /\ \A i \in 1..Len(args) : PlainTerm(args[i]))
    => /\ result.status = "returned"
       /\ StrictlyAscending(result.value)
       /\ Range(result.value) = UNION {Selected(Reg, args[i].s) : i \in 1..Len(args)}

\* C3: doc(a, b) is the key-wise union of doc(a) and doc(b), for all string
\* terms a and b, the empty one and those matching nothing included: the
\* keys are those of doc(a) and of doc(b), each with the value it has there;
\* the same for state_doc.
C3_DocOfTwoIsUnion ==
  (Served /\ op \in {"doc", "state_doc"} /\ Len(args) = 2)
    => LET da == doc(Reg, <<args[1]>>).value
           db == doc(Reg, <<args[2]>>).value
       IN  /\ result.status = "returned"
           /\ DOMAIN result.value = DOMAIN da \cup DOMAIN db
           /\ \A n \in DOMAIN da : result.value[n] = da[n]
           /\ \A n \in DOMAIN db : result.value[n] = db[n]

C3_Witness ==
  /\ pc = "done" /\ op = "doc" /\ args = <<PyStr(pkg), PyStr(sys)>>
  /\ DOMAIN salt = {pkg_install, sys_doc}
  /\ result.status = "returned" /\ DOMAIN result.value = {pkg_install, sys_doc}
  /\ DOMAIN doc(salt, <<PyStr(pkg)>>).value = {pkg_install}
  /\ DOMAIN doc(salt, <<PyStr(sys)>>).value = {sys_doc}

\* C4: list_modules() and list_state_modules() return the sorted
\* duplicate-free sequence of exactly the module segments (the text before
\* the first '.') of the names that contain a '.'; a name without '.'
\* contributes nothing.
C4_ModulesAreSegments ==
  (Served /\ op \in {"list_modules", "list_state_modules"})
    => /\ result.status = "returned"
       /\ StrictlyAscending(result.value)
       /\ Range(result.value) = {BeforeFirstDot(n) : n \in {m \in DOMAIN Reg : HasDot(m)}}

C4_Witness ==
  /\ pc = "done" /\ op = "list_modules"
  /\ DOMAIN salt = {sys, pkg_install}
  /\ result = Returned(<<pkg>>)

\* C5: list_functions() without arguments returns exactly the names of the
\* registry, lexicographically sorted and without duplicates, and every
\* repeated call against the unchanged registry returns the same sequence.
C5_ListAllStable ==
  \A i \in 1..Len(history) :
    /\ history[i].status = "returned"
    /\ StrictlyAscending(history[i].value)
    /\ Range(history[i].value) = DOMAIN salt
    /\ history[i] = history[1]

C5_Witness ==
  /\ Len(history) = 2 /\ pc = "done" /\ kwargs # {}
  /\ DOMAIN salt = {sys_doc, pkg_install}
  /\ history[2] = Returned(<<pkg_install, sys_doc>>)

\* the outcome of a state operation over an initialised state registry reg
StateOutcome(name, reg, a, kw) ==
  CASE name = "state_doc" -> state_doc("ready", reg, a)
    [] name = "list_state_functions" -> list_state_functions("ready", reg, a, kw)
    [] OTHER -> list_state_modules("ready", reg)

C7_KeywordsIgnored ==
  (pc = "done" /\ op \in {"list_functions", "list_state_functions"})
    => /\ op = "list_functions" => result = list_functions(salt, args, {})
       /\ op = "list_state_functions" => result = list_state_functions(provider, states, args, {})
       /\ Served => result.status = "returned"

C7_Witness ==
  /\ pc = "done" /\ op = "list_functions" /\ kwargs = {"garbage_keyword_arg"}
  /\ args = <<PyStr(sys)>>
  /\ result = Returned(<<sys_doc, sys_reload>>)

\* the str terms among the arguments
StrArgs == {args[i] : i \in {j \in 1..Len(args) : args[j].type = "str"}}

\* C8: a positional term that is not a string (123, 0, None) is ignored by
\* list_functions and list_state_functions: the call does not raise and the
\* term contributes nothing to the result.
C8_MalformedTermIgnored ==
  (Served /\ op \in {"list_functions", "list_state_functions"}
     /\ \E i \in 1..Len(args) : args[i].type # "str")
    => /\ result.status = "returned"
       /\ Range(result.value) = {n \in DOMAIN Reg : \E t \in StrArgs : list_match(n, t)}

\* C9: reload_modules returns True whatever the registries hold, and no
\* operation adds, removes or replaces an entry of the execution registry
\* or of the state registry.
C9_ReadOnly ==
  [][/\ salt' = salt
     /\ states' = states
     /\ (pc' = "done" /\ op' = "reload_modules") => result' = Returned(TRUE)]_vars

C9_Witness ==
  /\ pc = "done" /\ op = "reload_modules"
  /\ DOMAIN salt = {sys_doc} /\ DOMAIN states = {pkg_install}
  /\ result = Returned(TRUE)

\* the single term of the finished call with the separator appended
WithDot == PyStr(args[1].s \o DOT)

\* C10 as stated: a term m and m + '.' select the same entries, also when
\* the registry holds a name without '.': doc(m) and doc(m + '.') have the
\* same keys, list_functions(m) and list_functions(m + '.') return the same
\* sequence; likewise for the state operations.
C10_TrailingSeparatorSame ==
  (Served /\ Len(args) = 1 /\ PlainTerm(args[1]))
    => /\ op \in {"doc", "state_doc"} =>
            DOMAIN result.value = DOMAIN doc(Reg, <<WithDot>>).value
       /\ op \in {"list_functions", "list_state_functions"} =>
            result = list_functions(Reg, <<WithDot>>, kwargs)

\* C10 amended: list_functions(m) and list_functions(m + '.') return the
\* same sequence, and the keys of doc(m) are those of doc(m + '.') together
\* with the name m itself when the registry holds it; likewise for the
\* state operations.
C10_TrailingSeparatorSameButExactName ==
  (Served /\ Len(args) = 1 /\ PlainTerm(args[1]))
    => /\ op \in {"doc", "state_doc"} =>
            DOMAIN result.value =
              DOMAIN doc(Reg, <<WithDot>>).value \cup ({args[1].s} \cap DOMAIN Reg)
       /\ op \in {"list_functions", "list_state_functions"} =>
            result = list_functions(Reg, <<WithDot>>, kwargs)

C10_Witness ==
  /\ pc = "done" /\ op = "doc" /\ args = <<PyStr(sys)>>
  /\ DOMAIN salt = {sys, sys_doc}
  /\ DOMAIN result.value = {sys, sys_doc}
  /\ DOMAIN doc(salt, <<PyStr(sys \o DOT)>>).value = {sys_doc}

====
